---------------------------- MODULE Spec2Model ----------------------------
(***************************************************************************)
(* A model of gate_calculator.py: the answer-key extractor, the mark-scheme *)
(* resolver, the response segmenter, the scoring engine and run().          *)
(*                                                                          *)
(* Representation.                                                          *)
(*  - A Python str is a sequence of one-character strings.                  *)
(*  - Optional[x] is a sequence of length <= 1: None is <<>>.               *)
(*  - A dict is a function on its (finite) key set.                         *)
(*  - A mark value is an integer count of thirds of a mark: 1.0 is 3, 2.0   *)
(*    is 6, -(1.0/3.0) is -1, -(2.0/3.0) is -2.                             *)
(*  - A real number (a NAT answer, a range end) is an integer count of      *)
(*    1e-9, so the tolerance 1e-9 is 1; arithmetic is exact, not IEEE.      *)
(***************************************************************************)
EXTENDS Integers, Sequences, FiniteSets, TLC

VARIABLES
    pc,                  \* where the modelled call stands
    answer_key_pdf,      \* key document: pages of tables of rows of cells
    question_paper_pdf,  \* paper document: pages, each the band matches of its text
    total_questions,     \* parse_mark_scheme's argument
    response_sheet,      \* what the response URL serves: [ok, text]
    flat_text,           \* parse_response_sheet's flattened text, as lexemes
    detailed,            \* run's flag
    answer_key,          \* List[AnswerKeyEntry]
    mark_scheme,         \* Dict[int, float]
    responses,           \* List[ResponseQuestion]
    spans,               \* parse_response_sheet's content_text, metadata_text per anchor
    rows,                \* List[EvaluationRow]
    stdout,              \* what print_detailed / print_summary wrote
    calls,               \* the functions run() has called so far, in order
    error                \* the exception that ended the call, "" if none

vars == <<pc, answer_key_pdf, question_paper_pdf, total_questions, response_sheet,
          flat_text, detailed, answer_key, mark_scheme, responses, spans, rows,
          stdout, calls, error>>

-----------------------------------------------------------------------------
(* Text helpers *)

None == <<>>

Some(x) == <<x>>

Range(s) == {s[i] : i \in 1..Len(s)}

Min(a, b) == IF a <= b THEN a ELSE b

\* s[a:b] of Python, 0-based, half-open; a and b already within 0..Len(s).
Slice(s, a, b) == IF b <= a THEN <<>> ELSE SubSeq(s, a + 1, b)

RECURSIVE Flatten(_)
Flatten(ss) == IF ss = <<>> THEN <<>> ELSE Head(ss) \o Flatten(Tail(ss))

LowerLetters ==
    <<"a", "b", "c", "d", "e", "f", "g", "h", "i", "j", "k", "l", "m",
      "n", "o", "p", "q", "r", "s", "t", "u", "v", "w", "x", "y", "z">>

UpperLetters ==
    <<"A", "B", "C", "D", "E", "F", "G", "H", "I", "J", "K", "L", "M",
      "N", "O", "P", "Q", "R", "S", "T", "U", "V", "W", "X", "Y", "Z">>

\* str.upper on one character.
UpperChar(c) ==
    IF \E i \in 1..Len(LowerLetters) : LowerLetters[i] = c
    THEN UpperLetters[CHOOSE i \in 1..Len(LowerLetters) : LowerLetters[i] = c]
    ELSE c

upper(s) == [i \in 1..Len(s) |-> UpperChar(s[i])]

IsSpace(c) == c \in {" ", "\t", "\n"}

RECURSIVE lstrip(_)
lstrip(s) == IF s # <<>> /\ IsSpace(Head(s)) THEN lstrip(Tail(s)) ELSE s

RECURSIVE rstrip(_)
rstrip(s) ==
    IF s # <<>> /\ IsSpace(s[Len(s)]) THEN rstrip(SubSeq(s, 1, Len(s) - 1)) ELSE s

strip(s) == rstrip(lstrip(s))

\* re.sub(r"\s+", " ", s): every run of whitespace becomes one space.
RECURSIVE CollapseSpace(_)
CollapseSpace(s) ==
    IF s = <<>> THEN <<>>
    ELSE IF IsSpace(Head(s))
         THEN <<" ">> \o CollapseSpace(lstrip(s))
         ELSE <<Head(s)>> \o CollapseSpace(Tail(s))

normalize_space(value) == strip(CollapseSpace(value))

AsciiDigits == <<"0", "1", "2", "3", "4", "5", "6", "7", "8", "9">>

IsAsciiDigit(c) == \E i \in 1..10 : AsciiDigits[i] = c

DigitValue(c) == (CHOOSE i \in 1..10 : AsciiDigits[i] = c) - 1

\* SUPERSCRIPT TWO: str.isdigit() accepts it and int() raises ValueError on it.
SuperscriptTwo == "sup2"

\* str.isdigit: non-empty, every character a digit.
isdigit(s) == s # <<>> /\ \A i \in 1..Len(s) : IsAsciiDigit(s[i]) \/ s[i] = SuperscriptTwo

\* Whether int(s) returns for a string isdigit accepts.
IntParses(s) == \A i \in 1..Len(s) : IsAsciiDigit(s[i])

\* int(s) for a string of ASCII digits.
RECURSIVE int(_)
int(s) == IF s = <<>> THEN 0 ELSE 10 * int(SubSeq(s, 1, Len(s) - 1)) + DigitValue(s[Len(s)])


\* sub in s, for strings.
Contains(s, sub) ==
    \E i \in 0..(Len(s) - Len(sub)) : SubSeq(s, i + 1, i + Len(sub)) = sub

\* Insert the pair e = <<key, value>> behind every pair of the sorted
\* sequence whose key is <= e's.
RECURSIVE InsertByKey(_, _)
InsertByKey(e, s) ==
    IF s = <<>> THEN <<e>>
    ELSE IF Head(s)[1] <= e[1]
         THEN <<Head(s)>> \o InsertByKey(e, Tail(s))
         ELSE <<e>> \o s

\* Python's sort on <<key, value>> pairs: ascending by key, stable.
RECURSIVE SortedByKey(_)
SortedByKey(s) ==
    IF s = <<>> THEN <<>>
    ELSE InsertByKey(s[Len(s)], SortedByKey(SubSeq(s, 1, Len(s) - 1)))

Values(pairs) == [i \in 1..Len(pairs) |-> pairs[i][2]]

-----------------------------------------------------------------------------
(* parse_answer_key *)

QNoMarker == <<"Q", ".", " ", "N", "o", ".">>

QTypeMarker == <<"Q", ".", " ", "T", "y", "p", "e">>

\* Lines 54-58: the table has a header and a data row, and the header names
\* the key table.  A cell that is None reads as "" (cell or "").
TableAccepted(table) ==
    /\ Len(table) >= 2
    /\ LET header == [i \in 1..Len(table[1]) |-> normalize_space(table[1][i])]
       IN  /\ Len(header) >= 4
           /\ Contains(header[1], QNoMarker)
           /\ Contains(header[2], QTypeMarker)

\* Lines 60-67: the row has four cells and its first is all digits.
RowAccepted(row) == Len(row) >= 4 /\ isdigit(normalize_space(row[1]))

\* Lines 68-75.
AnswerKeyEntry(row) ==
    [q_no    |-> int(normalize_space(row[1])),
     q_type  |-> upper(normalize_space(row[2])),
     section |-> normalize_space(row[3]),
     key_raw |-> normalize_space(row[4])]

TableRows(table) ==
    IF TableAccepted(table) THEN SelectSeq(Tail(table), RowAccepted) ELSE <<>>

PageRows(page) == Flatten([t \in 1..Len(page) |-> TableRows(page[t])])

\* The rows the loops of lines 52-75 append an entry for, in document order.
AcceptedRows(pdf) == Flatten([p \in 1..Len(pdf) |-> PageRows(pdf[p])])

\* int(q_no_txt) raises ValueError on a row isdigit() let through.
AnswerKeyRaises(pdf) ==
    LET accepted == AcceptedRows(pdf)
    IN  \E i \in 1..Len(accepted) : ~IntParses(normalize_space(accepted[i][1]))

\* The list left in document order.
sort_entries_unsorted(entries) == entries

\* Line 77: entries.sort(key=lambda e: e.q_no).
sort_entries(entries) ==
    Values(SortedByKey([i \in 1..Len(entries) |-> <<entries[i].q_no, entries[i]>>]))

\* The list parse_answer_key returns when it does not raise.
parse_answer_key(pdf) ==
    LET accepted == AcceptedRows(pdf)
    IN  sort_entries([i \in 1..Len(accepted) |-> AnswerKeyEntry(accepted[i])])

-----------------------------------------------------------------------------
(* parse_mark_scheme *)

\* 1.0 and 2.0, in thirds of a mark.
OneMark == 3

TwoMarks == 6

WordONE == <<"O", "N", "E">>

WordTWO == <<"T", "W", "O">>

\* Lines 81-87: Optional[float].
mark_word_to_value(word) ==
    IF upper(word) = WordONE THEN Some(OneMark)
    ELSE IF upper(word) = WordTWO THEN Some(TwoMarks)
    ELSE None

\* Lines 106-107: marks[q_no] = mark_val for q_no in range(start_q, end_q + 1).
AssignBand(marks, start_q, end_q, mark_val) ==
    [q \in (DOMAIN marks) \cup (start_q..end_q) |->
        IF q \in start_q..end_q THEN mark_val ELSE marks[q]]

\* Lines 100-107 for one match <<start_txt, end_txt, mark_word>> of the pattern.
ApplyMatch(marks, m) ==
    IF mark_word_to_value(m[3]) = None THEN marks
    ELSE AssignBand(marks, int(m[1]), int(m[2]), mark_word_to_value(m[3])[1])

\* Lines 97-107: every match of every page, in order.
RECURSIVE ApplyMatches(_, _)
ApplyMatches(marks, ms) ==
    IF ms = <<>> THEN marks ELSE ApplyMatches(ApplyMatch(marks, Head(ms)), Tail(ms))

FallbackLow == 5

FallbackFrom == 11

FallbackTo == 35

\* Line 113.
FallbackMark(q_no) ==
    IF q_no <= FallbackLow \/ (FallbackFrom <= q_no /\ q_no <= FallbackTo)
    THEN OneMark ELSE TwoMarks

\* Lines 109-113.
FillMissing(marks, total) ==
    IF Cardinality(DOMAIN marks) < total
    THEN [q \in (DOMAIN marks) \cup (1..total) |->
            IF q \in DOMAIN marks THEN marks[q] ELSE FallbackMark(q)]
    ELSE marks

\* pdf is the sequence of pages, a page the sequence of the pattern's matches
\* in its text.
parse_mark_scheme(pdf, total) == FillMissing(ApplyMatches(<<>>, Flatten(pdf)), total)

-----------------------------------------------------------------------------
(* Numbers in text *)

\* 1.0 in units of 1e-9.
Nano == 1000000000

\* The value of the fraction digits fp, in units of 1e-9 (nine digits kept).
RECURSIVE FracNano(_, _)
FracNano(fp, place) ==
    IF fp = <<>> \/ place = 0 THEN 0
    ELSE DigitValue(Head(fp)) * place + FracNano(Tail(fp), place \div 10)

\* float(s) for s matching [-+]?\d+(?:\.\d+)?, in units of 1e-9.
float(s) ==
    LET signed == s[1] \in {"-", "+"}
        body   == IF signed THEN Tail(s) ELSE s
        dots   == {i \in 1..Len(body) : body[i] = "."}
        dot    == IF dots = {} THEN Len(body) + 1 ELSE CHOOSE i \in dots : TRUE
        whole  == int(SubSeq(body, 1, dot - 1)) * Nano
        frac   == FracNano(SubSeq(body, dot + 1, Len(body)), Nano \div 10)
    IN  IF s[1] = "-" THEN -(whole + frac) ELSE whole + frac

\* s.split(sep) for a one-character separator.
RECURSIVE split(_, _)
split(s, sep) ==
    LET at == {i \in 1..Len(s) : s[i] = sep}
    IN  IF at = {} THEN <<s>>
        ELSE LET i == CHOOSE j \in at : \A k \in at : j <= k
             IN  <<SubSeq(s, 1, i - 1)>> \o split(SubSeq(s, i + 1, Len(s)), sep)

\* The first occurrences of s's elements, in order.
RECURSIVE Unique(_)
Unique(s) ==
    IF s = <<>> THEN <<>>
    ELSE LET front == Unique(SubSeq(s, 1, Len(s) - 1))
         IN  IF s[Len(s)] \in Range(front) THEN front ELSE Append(front, s[Len(s)])

-----------------------------------------------------------------------------
(* _extract_option_map_from_text, _label_to_master_option *)

(***************************************************************************)
(* The flattened text is a sequence of lexemes, one position each:          *)
(*   [k |-> "anchor", type, id, status]  one match of start_pattern         *)
(*   [k |-> "qt"]        the literal "Question Type" outside any anchor     *)
(*   [k |-> "chosen", labels]  "Chosen Option : <labels>"                   *)
(*   [k |-> "given", num]      "Given Answer : <num>"                       *)
(*   [k |-> "opt", label, url] "<label> . IMG_SRC:<url>"                    *)
(*   [k |-> "img", url]        "IMG_SRC:<url>"                              *)
(*   [k |-> "text"]            anything else                                *)
(* A match's start() is the offset before its lexeme, its end() the one     *)
(* after.                                                                   *)
(***************************************************************************)
LabelA == <<"A">>

LabelB == <<"B">>

LabelC == <<"C">>

LabelD == <<"D">>

Labels == <<LabelA, LabelB, LabelC, LabelD>>

DotPng == <<".", "p", "n", "g">>

IsAtoD(c) == UpperChar(c) \in {"A", "B", "C", "D"}

\* Lines 120-127: the first "<label> . IMG_SRC:<url>" of the block, any case.
PrimaryHits(block_text, label) ==
    {i \in 1..Len(block_text) :
        block_text[i].k = "opt" /\ upper(block_text[i].label) = label}

PrimaryMap(block_text) ==
    [l \in {Labels[n] : n \in {m \in 1..4 : PrimaryHits(block_text, Labels[m]) # {}}} |->
        LET hits == PrimaryHits(block_text, l)
        IN  block_text[CHOOSE i \in hits : \A j \in hits : i <= j].url]

\* Where [^\s]+[a-dA-D]\.png (IGNORECASE) can end inside url: the offsets j
\* of the letter, which at least one character precedes.
FallbackEnds(url) ==
    {j \in 2..(Len(url) - 4) :
        IsAtoD(url[j]) /\ upper(SubSeq(url, j + 1, j + 4)) = upper(DotPng)}

\* Line 132: the group the greedy pattern captures from one IMG_SRC:<url>.
FallbackCapture(url) ==
    LET ends == FallbackEnds(url)
    IN  IF ends = {} THEN None
        ELSE Some(SubSeq(url, 1, 4 + CHOOSE j \in ends : \A k \in ends : k <= j))

\* Lines 132-138: the captured urls in text order, duplicates dropped.
FallbackUrls(block_text) ==
    Unique(Flatten([i \in 1..Len(block_text) |->
        IF block_text[i].k \in {"opt", "img"}
        THEN FallbackCapture(block_text[i].url) ELSE <<>>]))

\* Lines 118-148.
extract_option_map_from_text(block_text) ==
    LET option_map  == PrimaryMap(block_text)
        unique_urls == FallbackUrls(block_text)
    IN  IF Cardinality(DOMAIN option_map) = 4 THEN option_map
        ELSE IF Len(unique_urls) >= 4
             THEN [l \in Range(Labels) |-> unique_urls[CHOOSE n \in 1..4 : Labels[n] = l]]
             ELSE option_map

\* Where ([a-dA-D])\.png(?:\?|$) matches in url: the offsets of the letter.
MasterHits(url) ==
    {j \in 1..(Len(url) - 4) :
        /\ IsAtoD(url[j])
        /\ SubSeq(url, j + 1, j + 4) = DotPng
        /\ (j + 4 = Len(url) \/ url[j + 5] = "?")}

\* Lines 219-226: Optional[str].
label_to_master_option(option_map, label) ==
    IF label \notin DOMAIN option_map THEN None
    ELSE LET url  == option_map[label]
             hits == MasterHits(url)
         IN  IF hits = {} THEN None
             ELSE Some(<<UpperChar(url[CHOOSE j \in hits : \A k \in hits : j <= k])>>)

-----------------------------------------------------------------------------
(* parse_response_sheet *)

\* Line 173: the offsets (1-based) of the anchors, in document order.
Starts(text) == SelectSeq([i \in 1..Len(text) |-> i], LAMBDA i : text[i].k = "anchor")

\* Lines 179-180, for the list starts of line 173.
NextStart(text, starts, index) ==
    IF index + 1 <= Len(starts) THEN starts[index + 1] - 1 ELSE Len(text)

PrevEnd(starts, index) == IF index > 1 THEN starts[index - 1] ELSE 0

\* The metadata span cut at the end of the text for every anchor.
metadata_text_to_end(text, starts, index) == Slice(text, starts[index] - 1, Len(text))

\* Line 182.
metadata_text(text, starts, index) ==
    Slice(text, starts[index] - 1, NextStart(text, starts, index))

\* Line 183.
content_text(text, starts, index) == Slice(text, PrevEnd(starts, index), starts[index] - 1)

TypeMCQ == <<"M", "C", "Q">>

TypeMSQ == <<"M", "S", "Q">>

TypeNAT == <<"N", "A", "T">>

\* re.search: the first lexeme of the kind in the span, if any.
FirstOf(span, kind) ==
    LET at == {i \in 1..Len(span) : span[i].k = kind}
    IN  IF at = {} THEN None ELSE Some(span[CHOOSE i \in at : \A j \in at : i <= j])

StripUpper(parts) == [i \in 1..Len(parts) |-> upper(strip(parts[i]))]

\* Lines 189-193.
ChosenLabels(q_type, metadata) ==
    LET chosen_match == FirstOf(metadata, "chosen")
    IN  IF q_type \in {TypeMCQ, TypeMSQ} /\ chosen_match # None
        THEN StripUpper(SelectSeq(split(chosen_match[1].labels, ","),
                                  LAMBDA part : strip(part) # <<>>))
        ELSE <<>>

\* Lines 195-201: the content span first, the metadata span as fallback.
GivenAnswer(q_type, content, metadata) ==
    LET in_content  == FirstOf(content, "given")
        in_metadata == FirstOf(metadata, "given")
    IN  IF q_type # TypeNAT THEN None
        ELSE IF in_content # None THEN Some(float(in_content[1].num))
        ELSE IF in_metadata # None THEN Some(float(in_metadata[1].num))
        ELSE None

\* Lines 178-214 for anchor number index.
ResponseQuestion(text, starts, index) ==
    LET start    == text[starts[index]]
        q_type   == upper(start.type)
        metadata == metadata_text(text, starts, index)
        content  == content_text(text, starts, index)
    IN  [question_id   |-> int(start.id),
         q_type        |-> q_type,
         status        |-> start.status,
         chosen_labels |-> ChosenLabels(q_type, metadata),
         given_answer  |-> GivenAnswer(q_type, content, metadata),
         option_map    |-> IF q_type \in {TypeMCQ, TypeMSQ}
                           THEN extract_option_map_from_text(content)
                           ELSE <<>>]

\* Lines 182-183 for every anchor: what the loop binds metadata_text and
\* content_text to.
Spans(text) ==
    LET starts == Starts(text)
    IN  [index \in 1..Len(starts) |->
            [content  |-> content_text(text, starts, index),
             metadata |-> metadata_text(text, starts, index)]]

\* Lines 164-216, from the flattened text on.
parse_response_sheet(text) ==
    LET starts == Starts(text)
    IN  IF ~\E i \in 1..Len(text) : text[i].k \in {"qt", "anchor"} THEN <<>>
        ELSE [index \in 1..Len(starts) |-> ResponseQuestion(text, starts, index)]

-----------------------------------------------------------------------------
(* parse_nat_range, str(float) *)

AllDigits(t) == t # <<>> /\ \A i \in 1..Len(t) : IsAsciiDigit(t[i])

\* t matches [-+]?\d+(?:\.\d+)? as a whole.
IsNumber(t) ==
    /\ t # <<>>
    /\ LET body == IF t[1] \in {"-", "+"} THEN Tail(t) ELSE t
           dots == {i \in 1..Len(body) : body[i] = "."}
       IN  \/ AllDigits(body)
           \/ /\ Cardinality(dots) = 1
              /\ LET d == CHOOSE i \in dots : TRUE
                 IN  /\ AllDigits(SubSeq(body, 1, d - 1))
                     /\ AllDigits(SubSeq(body, d + 1, Len(body)))

\* The offset of the first non-space character of s at or after p
\* (Len(s) + 1 when there is none): where \s* leaves the matcher.
SkipSpace(s, p) ==
    LET rest == {q \in p..Len(s) : ~IsSpace(s[q])}
    IN  IF rest = {} THEN Len(s) + 1 ELSE CHOOSE q \in rest : \A r \in rest : q <= r

\* The pattern of line 230 matched with its first group at s[i..e]: the
\* offsets <<j, f>> of the second group, taken greedily; <<>> for no match.
RangeTail(s, i, e) ==
    LET p == SkipSpace(s, e + 1)
        j == SkipSpace(s, p + 2)
        ends == {f \in j..Len(s) : IsNumber(SubSeq(s, j, f))}
    IN  IF /\ IsNumber(SubSeq(s, i, e))
           /\ p + 1 <= Len(s)
           /\ upper(SubSeq(s, p, p + 1)) = <<"T", "O">>
           /\ ends # {}
        THEN <<j, CHOOSE f \in ends : \A g \in ends : g <= f>>
        ELSE <<>>

RangeMatches(s) ==
    {m \in (1..Len(s)) \X (1..Len(s)) : m[1] <= m[2] /\ RangeTail(s, m[1], m[2]) # <<>>}

\* Lines 229-233: <<lo, hi>>, or <<>> for (None, None).  re.search takes the
\* leftmost start, and from it the longest first group.
parse_nat_range(key_raw) ==
    IF RangeMatches(key_raw) = {} THEN <<>>
    ELSE LET m == CHOOSE a \in RangeMatches(key_raw) :
                    \A b \in RangeMatches(key_raw) :
                        a[1] < b[1] \/ (a[1] = b[1] /\ a[2] >= b[2])
             t == RangeTail(key_raw, m[1], m[2])
         IN  <<float(SubSeq(key_raw, m[1], m[2])), float(SubSeq(key_raw, t[1], t[2]))>>

\* The decimal digits of n >= 0.
RECURSIVE IntStr(_)
IntStr(n) == IF n < 10 THEN <<AsciiDigits[n + 1]>> ELSE IntStr(n \div 10) \o <<AsciiDigits[(n % 10) + 1]>>

RECURSIVE StripZeros(_)
StripZeros(t) ==
    IF t # <<>> /\ t[Len(t)] = "0" THEN StripZeros(SubSeq(t, 1, Len(t) - 1)) ELSE t

\* n >= 0 as exactly width digits.
RECURSIVE Padded(_, _)
Padded(n, width) ==
    IF width = 0 THEN <<>> ELSE Padded(n \div 10, width - 1) \o <<AsciiDigits[(n % 10) + 1]>>

\* str(x) of a float x = v * 1e-9: the shortest repr, positional from 1e-4
\* up and in exponent form below.
FloatStr(v) ==
    LET a    == IF v < 0 THEN -v ELSE v
        sign == IF v < 0 THEN <<"-">> ELSE <<>>
        frac == StripZeros(Padded(a % Nano, 9))
        sig  == StripZeros(IntStr(a))
        exp  == 10 - Len(IntStr(a))
    IN  IF a = 0 \/ a >= Nano \div 10000
        THEN sign \o IntStr(a \div Nano) \o <<".">> \o (IF frac = <<>> THEN <<"0">> ELSE frac)
        ELSE sign \o <<Head(sig)>> \o (IF Len(sig) > 1 THEN <<".">> \o Tail(sig) ELSE <<>>)
                  \o <<"e", "-">> \o Padded(exp, 2)

-----------------------------------------------------------------------------
(* evaluate *)

Placeholder == <<"-", "-">>

\* 1e-9, in units of 1e-9.
Tolerance == 1

\* MCQ scored on the last chosen label.
ScoreMCQ_last_label(key_entry, response, max_marks) ==
    LET mapped == IF response.chosen_labels = <<>> THEN None
                  ELSE label_to_master_option(response.option_map,
                           response.chosen_labels[Len(response.chosen_labels)])
    IN  IF mapped = None THEN <<Placeholder, 0>>
        ELSE IF mapped[1] = key_entry.key_raw THEN <<mapped[1], max_marks>>
        ELSE <<mapped[1], -(max_marks \div 3)>>

\* Lines 256-264: <<student_answer, earned>>.
ScoreMCQ(key_entry, response, max_marks) ==
    LET mapped == IF response.chosen_labels = <<>> THEN None
                  ELSE label_to_master_option(response.option_map, response.chosen_labels[1])
    IN  IF mapped = None THEN <<Placeholder, 0>>
        ELSE IF mapped[1] = key_entry.key_raw THEN <<mapped[1], max_marks>>
        ELSE <<mapped[1], -(max_marks \div 3)>>

\* Lines 266-271: the set of the chosen labels' canonical letters.
MappedAnswers(response) ==
    {label_to_master_option(response.option_map, response.chosen_labels[i])[1] :
        i \in {n \in 1..Len(response.chosen_labels) :
                 label_to_master_option(response.option_map, response.chosen_labels[n]) # None}}

\* Line 274.
CorrectSet(key_raw) ==
    {upper(strip(split(key_raw, ";")[i])) :
        i \in {n \in 1..Len(split(key_raw, ";")) : strip(split(key_raw, ";")[n]) # <<>>}}

\* ";".join(sorted(letters)) for a set of one-letter strings among A-D.
RECURSIVE JoinSorted(_, _)
JoinSorted(letters, n) ==
    IF n > 4 THEN <<>>
    ELSE IF Labels[n] \in letters
         THEN Labels[n] \o (IF \E m \in (n + 1)..4 : Labels[m] \in letters THEN <<";">> ELSE <<>>)
                        \o JoinSorted(letters, n + 1)
         ELSE JoinSorted(letters, n + 1)

\* MSQ with full marks for any resolved set that covers the reference set.
ScoreMSQ_superset(key_entry, response, max_marks) ==
    <<IF MappedAnswers(response) # {} THEN JoinSorted(MappedAnswers(response), 1) ELSE Placeholder,
      IF CorrectSet(key_entry.key_raw) \subseteq MappedAnswers(response) THEN max_marks ELSE 0>>

\* Lines 265-276.
ScoreMSQ(key_entry, response, max_marks) ==
    <<IF MappedAnswers(response) # {} THEN JoinSorted(MappedAnswers(response), 1) ELSE Placeholder,
      IF MappedAnswers(response) = CorrectSet(key_entry.key_raw) THEN max_marks ELSE 0>>

\* NAT without the tolerance.
ScoreNAT_no_tolerance(key_entry, response, max_marks) ==
    LET range == parse_nat_range(key_entry.key_raw)
    IN  IF response.given_answer = None THEN <<Placeholder, 0>>
        ELSE <<FloatStr(response.given_answer[1]),
               IF /\ range # <<>>
                  /\ range[1] <= response.given_answer[1]
                  /\ response.given_answer[1] <= range[2]
               THEN max_marks ELSE 0>>

\* Lines 277-282.
ScoreNAT(key_entry, response, max_marks) ==
    LET range == parse_nat_range(key_entry.key_raw)
    IN  IF response.given_answer = None THEN <<Placeholder, 0>>
        ELSE <<FloatStr(response.given_answer[1]),
               IF /\ range # <<>>
                  /\ range[1] - Tolerance <= response.given_answer[1]
                  /\ response.given_answer[1] <= range[2] + Tolerance
               THEN max_marks ELSE 0>>

\* Lines 251-282.
Score(key_entry, response, max_marks) ==
    IF key_entry.q_type = TypeMCQ THEN ScoreMCQ(key_entry, response, max_marks)
    ELSE IF key_entry.q_type = TypeMSQ THEN ScoreMSQ(key_entry, response, max_marks)
    ELSE IF key_entry.q_type = TypeNAT THEN ScoreNAT(key_entry, response, max_marks)
    ELSE <<Placeholder, 0>>

\* Line 250: mark_scheme.get(q_no, 1.0).
MaxMarks(scheme, q_no) == IF q_no \in DOMAIN scheme THEN scheme[q_no] ELSE OneMark

\* The records left in document order.
sorted_responses_document_order(response_questions) == response_questions

\* Line 241: sorted(response_questions, key=lambda q: q.question_id).
sorted_responses(response_questions) ==
    Values(SortedByKey([i \in 1..Len(response_questions) |->
        <<response_questions[i].question_id, response_questions[i]>>]))

\* Lines 249-295.
EvaluationRow(key_entry, response, scheme) ==
    LET max_marks == MaxMarks(scheme, key_entry.q_no)
        scored    == Score(key_entry, response, max_marks)
    IN  [q_no           |-> key_entry.q_no,
         question_id    |-> response.question_id,
         q_type         |-> key_entry.q_type,
         status         |-> response.status,
         student_answer |-> scored[1],
         correct_answer |-> key_entry.key_raw,
         marks          |-> scored[2],
         max_marks      |-> max_marks]

\* Line 242.
EvaluateRaises(key, response_questions) == Len(response_questions) < Len(key)

\* Lines 247-297: the rows evaluate returns when it does not raise.
evaluate(key, scheme, response_questions) ==
    LET sorted == sorted_responses(response_questions)
    IN  [index \in 1..Len(key) |-> EvaluationRow(key[index], sorted[index], scheme)]

-----------------------------------------------------------------------------
(* print_detailed, print_summary *)

\* f"{x:.2f}" of x = thirds / 3, as a count of hundredths.
Hundredths(thirds) == (200 * thirds + 3) \div 6

RECURSIVE SumMarks(_, _)
SumMarks(rs, field) ==
    IF rs = <<>> THEN 0 ELSE Head(rs)[field] + SumMarks(Tail(rs), field)

\* Lines 311-317.
print_detailed(rs) ==
    <<[k |-> "header"]>> \o
    [i \in 1..Len(rs) |->
        [k |-> "row", q_no |-> rs[i].q_no, question_id |-> rs[i].question_id,
         q_type |-> rs[i].q_type, status |-> rs[i].status,
         student_answer |-> rs[i].student_answer,
         correct_answer |-> rs[i].correct_answer,
         marks |-> Hundredths(rs[i].marks)]]

\* Lines 300-308.
print_summary(rs) ==
    <<[k |-> "total", total |-> Hundredths(SumMarks(rs, "marks")),
       max_total |-> Hundredths(SumMarks(rs, "max_marks"))],
      [k |-> "subtotal_1",
       total |-> Hundredths(SumMarks(SelectSeq(rs, LAMBDA r : r.max_marks = OneMark), "marks"))],
      [k |-> "subtotal_2",
       total |-> Hundredths(SumMarks(SelectSeq(rs, LAMBDA r : r.max_marks = TwoMarks), "marks"))]>>

-----------------------------------------------------------------------------
(* run *)

ErrInt == "ValueError: invalid literal for int()"

ErrKey == "ValueError: Could not parse answer key table."

ErrFetch == "httpx.HTTPError"

ErrResponses == "ValueError: Could not parse response sheet questions from HTML."

ErrTooFew == "ValueError: Response sheet has fewer questions than the answer key."

Raise(e) == pc' = "raised" /\ error' = e

\* parse_answer_key without the check of line 334.
RunParseAnswerKey_unchecked ==
    /\ pc = "run"
    /\ calls' = Append(calls, "parse_answer_key")
    /\ IF AnswerKeyRaises(answer_key_pdf)
       THEN Raise(ErrInt) /\ UNCHANGED answer_key
       ELSE /\ answer_key' = parse_answer_key(answer_key_pdf)
            /\ pc' = "parse_mark_scheme" /\ UNCHANGED error
    /\ UNCHANGED <<answer_key_pdf, question_paper_pdf, total_questions, response_sheet,
                   flat_text, detailed, mark_scheme, responses, rows, stdout, spans>>

\* Lines 333-335.
RunParseAnswerKey ==
    /\ pc = "run"
    /\ calls' = Append(calls, "parse_answer_key")
    /\ IF AnswerKeyRaises(answer_key_pdf)
       THEN Raise(ErrInt) /\ UNCHANGED answer_key
       ELSE /\ answer_key' = parse_answer_key(answer_key_pdf)
            /\ IF answer_key' = <<>>
               THEN Raise(ErrKey)
               ELSE pc' = "parse_mark_scheme" /\ UNCHANGED error
    /\ UNCHANGED <<answer_key_pdf, question_paper_pdf, total_questions, response_sheet,
                   flat_text, detailed, mark_scheme, responses, rows, stdout, spans>>

\* Line 337.
RunParseMarkScheme ==
    /\ pc = "parse_mark_scheme"
    /\ calls' = Append(calls, "parse_mark_scheme")
    /\ total_questions' = Len(answer_key)
    /\ mark_scheme' = parse_mark_scheme(question_paper_pdf, Len(answer_key))
    /\ pc' = "fetch_response_html"
    /\ UNCHANGED <<answer_key_pdf, question_paper_pdf, response_sheet, flat_text,
                   detailed, answer_key, responses, rows, stdout, error, spans>>

\* Lines 338, 320-324: raise_for_status() ends the run on a failed request.
RunFetchResponseHtml ==
    /\ pc = "fetch_response_html"
    /\ calls' = Append(calls, "fetch_response_html")
    /\ IF response_sheet.ok
       THEN flat_text' = response_sheet.text /\ pc' = "parse_response_sheet" /\ UNCHANGED error
       ELSE Raise(ErrFetch) /\ UNCHANGED flat_text
    /\ UNCHANGED <<answer_key_pdf, question_paper_pdf, total_questions, response_sheet,
                   detailed, answer_key, mark_scheme, responses, rows, stdout, spans>>

\* Lines 339-341.
RunParseResponseSheet ==
    /\ pc = "parse_response_sheet"
    /\ calls' = Append(calls, "parse_response_sheet")
    /\ responses' = parse_response_sheet(flat_text)
    /\ spans' = Spans(flat_text)
    /\ IF responses' = <<>>
       THEN Raise(ErrResponses)
       ELSE pc' = "evaluate" /\ UNCHANGED error
    /\ UNCHANGED <<answer_key_pdf, question_paper_pdf, total_questions, response_sheet,
                   flat_text, detailed, answer_key, mark_scheme, rows, stdout>>

\* Line 343.
RunEvaluate ==
    /\ pc = "evaluate"
    /\ calls' = Append(calls, "evaluate")
    /\ IF EvaluateRaises(answer_key, responses)
       THEN Raise(ErrTooFew) /\ UNCHANGED rows
       ELSE /\ rows' = evaluate(answer_key, mark_scheme, responses)
            /\ pc' = "print" /\ UNCHANGED error
    /\ UNCHANGED <<answer_key_pdf, question_paper_pdf, total_questions, response_sheet,
                   flat_text, detailed, answer_key, mark_scheme, responses, stdout, spans>>

\* Lines 345-347.
RunPrint ==
    /\ pc = "print"
    /\ calls' = calls \o (IF detailed THEN <<"print_detailed">> ELSE <<>>) \o <<"print_summary">>
    /\ stdout' = (IF detailed THEN print_detailed(rows) ELSE <<>>) \o print_summary(rows)
    /\ pc' = "returned"
    /\ UNCHANGED <<answer_key_pdf, question_paper_pdf, total_questions, response_sheet,
                   flat_text, detailed, answer_key, mark_scheme, responses, rows, error, spans>>

-----------------------------------------------------------------------------
(* Key documents *)

MaxRows == 2

\* Every sequence over S of length <= n.
SeqsUpTo(S, n) == UNION {[1..k -> S] : k \in 0..n}

SectionGA == <<"G", "A">>

KeyHeader == <<<<"Q", ".", " ", " ", "N", "o", ".">>, <<"\n", "Q", ".", " ", "T", "y", "p", "e">>,
               <<"S", "e", "c", "t", "i", "o", "n">>, <<"K", "e", "y">>>>

OtherHeader == <<<<"S", "l">>, <<"N", "a", "m", "e">>, <<>>, <<>>>>

ShortHeader == <<<<"Q", ".", " ", "N", "o", ".">>, <<"Q", ".", " ", "T", "y", "p", "e">>,
                 <<"K", "e", "y">>>>

KeyA == <<"A">>

KeyAB == <<"A", ";", " ", "b">>

Key1to2 == <<"1", " ", "t", "o", " ", "2">>

KeyRowMenu ==
    {<<<<"1">>, TypeMCQ, SectionGA, KeyA>>,
     <<<<" ", "2", " ">>, <<"m", "s", "q">>, SectionGA, KeyAB>>,
     <<<<"0", "2">>, TypeNAT, SectionGA, Key1to2>>,
     <<<<"1", "0">>, TypeMCQ, SectionGA, <<"B">>>>,
     <<<<>>, <<>>, <<>>, <<>>>>}

KeyTables ==
    {<<>>} \cup {<<h>> \o rs : h \in {KeyHeader, OtherHeader}, rs \in SeqsUpTo(KeyRowMenu, MaxRows)}

KeyPages == {<<>>} \cup {<<t>> : t \in KeyTables}

\* Documents the menu does not build: a row of three cells, a header of three
\* cells, a footer row, a number int() rejects, two tables on one page.
EdgeKeyDocs ==
    {<<<<<<KeyHeader, <<<<"3">>, TypeMCQ, SectionGA>>, <<<<"1">>, TypeMCQ, SectionGA, KeyA>>>>>>>>,
     <<<<<<ShortHeader, <<<<"1">>, TypeMCQ, SectionGA, KeyA>>>>>>>>,
     <<<<<<KeyHeader, <<<<"1">>, TypeMCQ, SectionGA, KeyA>>,
                      <<<<"1", " ", "a">>, TypeMCQ, SectionGA, KeyA>>>>>>>>,
     <<<<<<KeyHeader, <<<<SuperscriptTwo>>, TypeMCQ, SectionGA, KeyA>>>>>>>>,
     <<<<<<KeyHeader, <<<<"2">>, TypeNAT, SectionGA, Key1to2>>>>,
         <<KeyHeader, <<<<"1">>, TypeMCQ, SectionGA, KeyA>>>>>>>>}

KeyDocs ==
    {<<>>} \cup {<<p>> : p \in KeyPages} \cup {<<p, q>> : p \in KeyPages, q \in KeyPages}
           \cup EdgeKeyDocs

-----------------------------------------------------------------------------
(* parse_answer_key called on its own *)

InitKey ==
    /\ pc = "parse_answer_key"
    /\ answer_key_pdf \in KeyDocs
    /\ question_paper_pdf = <<>>
    /\ total_questions = 0
    /\ response_sheet = [ok |-> FALSE, text |-> <<>>]
    /\ flat_text = <<>>
    /\ detailed = FALSE
    /\ answer_key = <<>>
    /\ mark_scheme = <<>>
    /\ responses = <<>>
    /\ spans = <<>>
    /\ rows = <<>>
    /\ stdout = <<>>
    /\ calls = <<>>
    /\ error = ""

CallParseAnswerKey ==
    /\ pc = "parse_answer_key"
    /\ IF AnswerKeyRaises(answer_key_pdf)
       THEN Raise(ErrInt) /\ UNCHANGED answer_key
       ELSE /\ answer_key' = parse_answer_key(answer_key_pdf)
            /\ pc' = "returned" /\ UNCHANGED error
    /\ UNCHANGED <<answer_key_pdf, question_paper_pdf, total_questions, response_sheet,
                   flat_text, detailed, mark_scheme, responses, rows, stdout, calls, spans>>

NextKey == CallParseAnswerKey

SpecKey == InitKey /\ [][NextKey]_vars

\* The entries of the accepted rows, in document order.
RowEntries(pdf) ==
    LET accepted == AcceptedRows(pdf)
    IN  [i \in 1..Len(accepted) |-> AnswerKeyEntry(accepted[i])]

Count(s, e) == Cardinality({i \in 1..Len(s) : s[i] = e})

\* C2 as stated: the returned list is sorted ascending by q_no and no two of
\* its entries share a q_no.
C2_SortedAndUnique ==
    pc = "returned" =>
        \A i, j \in 1..Len(answer_key) : i < j => answer_key[i].q_no < answer_key[j].q_no

\* C2 amended: the returned list is in non-decreasing order of q_no and holds
\* exactly the entries of the accepted rows, each as often as it occurs there,
\* so a q_no occurs twice in the list exactly when two accepted rows carry it.
C2_SortedKeepsEveryRow ==
    pc = "returned" =>
        LET entries == RowEntries(answer_key_pdf)
        IN  /\ \A i, j \in 1..Len(answer_key) :
                  i < j => answer_key[i].q_no <= answer_key[j].q_no
            /\ Len(answer_key) = Len(entries)
            /\ \A e \in Range(entries) : Count(answer_key, e) = Count(entries, e)

\* A returned list with two entries of one q_no, from rows the document gives
\* in descending order of q_no.
C2_Witness ==
    /\ pc = "returned"
    /\ Len(answer_key) >= 3
    /\ \E i \in 1..(Len(answer_key) - 1) : answer_key[i].q_no = answer_key[i + 1].q_no
    /\ LET entries == RowEntries(answer_key_pdf)
       IN  \E i \in 1..(Len(entries) - 1) : entries[i].q_no > entries[i + 1].q_no

-----------------------------------------------------------------------------
(* parse_mark_scheme called on its own *)

MaxQNo == 4

MaxTotal == 12

\* The digit strings a band may carry: 0..MaxQNo, and one with a leading zero.
NumTexts == {IntStr(n) : n \in 0..MaxQNo} \cup {<<"0">> \o IntStr(MaxQNo)}

BandMatches == NumTexts \X NumTexts \X {WordONE, <<"t", "w", "o">>}

\* No page, a page without a band, one band, two bands on one page or on two.
Papers ==
    {<<>>, <<<<>>>>} \cup {<<<<m>>>> : m \in BandMatches}
        \cup {<<<<m, n>>>> : m \in BandMatches, n \in BandMatches}
        \cup {<<<<m>>, <<>>, <<n>>>> : m \in {<<IntStr(1), IntStr(MaxQNo), WordONE>>},
                                      n \in BandMatches}

Totals == (0..MaxTotal) \cup {FallbackTo, FallbackTo + 1}

InitMarks ==
    /\ pc = "parse_mark_scheme"
    /\ answer_key_pdf = <<>>
    /\ question_paper_pdf \in Papers
    /\ total_questions \in Totals
    /\ response_sheet = [ok |-> FALSE, text |-> <<>>]
    /\ flat_text = <<>>
    /\ detailed = FALSE
    /\ answer_key = <<>>
    /\ mark_scheme = <<>>
    /\ responses = <<>>
    /\ spans = <<>>
    /\ rows = <<>>
    /\ stdout = <<>>
    /\ calls = <<>>
    /\ error = ""

CallParseMarkScheme ==
    /\ pc = "parse_mark_scheme"
    /\ mark_scheme' = parse_mark_scheme(question_paper_pdf, total_questions)
    /\ pc' = "returned"
    /\ UNCHANGED <<answer_key_pdf, question_paper_pdf, total_questions, response_sheet,
                   flat_text, detailed, answer_key, responses, rows, stdout, calls, error, spans>>

NextMarks == CallParseMarkScheme

SpecMarks == InitMarks /\ [][NextMarks]_vars

\* C1: the returned mark table has exactly total_questions entries and its
\* key set is exactly {1, ..., total_questions}.
C1_KeysAreOneToTotal ==
    pc = "returned" =>
        /\ Cardinality(DOMAIN mark_scheme) = total_questions
        /\ DOMAIN mark_scheme = 1..total_questions

-----------------------------------------------------------------------------
(* Response documents *)

MaxAnchors == 2

Text == [k |-> "text"]

QuestionTypeLiteral == [k |-> "qt"]

Anchor(type, id, status) == [k |-> "anchor", type |-> type, id |-> id, status |-> status]

Chosen(labels) == [k |-> "chosen", labels |-> labels]

Given(num) == [k |-> "given", num |-> num]

Opt(label, url) == [k |-> "opt", label |-> label, url |-> url]

Img(url) == [k |-> "img", url |-> url]

StatusAnswered == <<"A", "n", "s", "w", "e", "r", "e", "d">>

StatusNotAnswered == <<"N", "o", "t", " ", "A", "n", "s", "w", "e", "r", "e", "d">>

\* Urls: UrlA..UrlD end in the canonical letter; UrlB carries a query string,
\* UrlUpperExt an upper-case extension, UrlOther no option letter.
UrlA == <<"u", "/", "a", ".", "p", "n", "g">>

UrlB == <<"u", "/", "B", ".", "p", "n", "g", "?", "v">>

UrlC == <<"u", "/", "c", ".", "p", "n", "g">>

UrlD == <<"u", "/", "d", ".", "p", "n", "g">>

UrlUpperExt == <<"u", "/", "c", ".", "P", "N", "G">>

UrlOther == <<"u", "/", "x", ".", "p", "n", "g">>

\* What may precede an anchor: nothing, an answer line, four labelled
\* options (displayed order differs from the canonical one), three labelled
\* options and a bare image.
ContentMenu ==
    {<<>>,
     <<Given(<<"1", ".", "5">>)>>,
     <<Opt(LabelA, UrlC), Opt(<<"b">>, UrlA), Opt(LabelC, UrlB), Opt(LabelD, UrlD)>>,
     <<Opt(LabelA, UrlB), Img(UrlUpperExt), Opt(LabelC, UrlA), Opt(LabelD, UrlOther), Img(UrlD)>>}

\* What may follow an anchor.
MetadataMenu ==
    {<<>>,
     <<Chosen(<<"A">>)>>,
     <<Chosen(<<"c", " ", ",", "A">>), Text>>,
     <<Given(<<"-", "1">>)>>}

AnchorMenu ==
    {Anchor(TypeMCQ, <<"7">>, StatusAnswered),
     Anchor(<<"m", "s", "q">>, <<"0", "3">>, StatusAnswered),
     Anchor(TypeNAT, <<"1", "2">>, StatusNotAnswered)}

Blocks == {c \o <<a>> \o m : c \in ContentMenu, a \in AnchorMenu, m \in MetadataMenu}

\* Texts with 0..MaxAnchors anchors, and texts without any.
FlatTexts ==
    {Flatten(bs) : bs \in SeqsUpTo(Blocks, MaxAnchors)}
        \cup {<<Text>>, <<Text, QuestionTypeLiteral, Chosen(<<"A">>)>>}

-----------------------------------------------------------------------------
(* parse_response_sheet called on its own *)

InitSeg ==
    /\ pc = "parse_response_sheet"
    /\ answer_key_pdf = <<>>
    /\ question_paper_pdf = <<>>
    /\ total_questions = 0
    /\ response_sheet = [ok |-> FALSE, text |-> <<>>]
    /\ flat_text \in FlatTexts
    /\ detailed = FALSE
    /\ answer_key = <<>>
    /\ mark_scheme = <<>>
    /\ responses = <<>>
    /\ spans = <<>>
    /\ rows = <<>>
    /\ stdout = <<>>
    /\ calls = <<>>
    /\ error = ""

CallParseResponseSheet ==
    /\ pc = "parse_response_sheet"
    /\ responses' = parse_response_sheet(flat_text)
    /\ spans' = Spans(flat_text)
    /\ pc' = "returned"
    /\ UNCHANGED <<answer_key_pdf, question_paper_pdf, total_questions, response_sheet,
                   flat_text, detailed, answer_key, mark_scheme, rows, stdout, calls, error>>

NextSeg == CallParseResponseSheet

SpecSeg == InitSeg /\ [][NextSeg]_vars

\* Each anchor's content span followed by its metadata span, in anchor order.
AllSpans == Flatten([i \in 1..Len(spans) |-> spans[i].content \o spans[i].metadata])

MetadataSpans == Flatten([i \in 1..Len(spans) |-> spans[i].metadata])

\* C3 as stated: for a text with at least one anchor, each anchor's content
\* span followed by its metadata span, concatenated in anchor order, is the
\* flattened text.
C3_SpansPartitionText ==
    (pc = "returned" /\ spans # <<>>) => AllSpans = flat_text

\* C3 amended: the first content span followed by every metadata span is the
\* flattened text; each later content span repeats the previous metadata span
\* from the end of its anchor on; so all spans together give the text back
\* exactly when no text lies between two consecutive anchors.
C3_MetadataSpansPartitionText ==
    (pc = "returned" /\ spans # <<>>) =>
        /\ spans[1].content \o MetadataSpans = flat_text
        /\ \A i \in 2..Len(spans) : spans[i].content = Tail(spans[i - 1].metadata)
        /\ (AllSpans = flat_text) <=> (\A i \in 2..Len(spans) : spans[i].content = <<>>)

\* Two anchors with text between them, both spans of the second non-empty.
C3_Witness ==
    /\ pc = "returned"
    /\ Len(spans) = 2
    /\ spans[1].content # <<>>
    /\ spans[2].content # <<>>
    /\ Len(spans[2].metadata) > 1
    /\ AllSpans # flat_text

-----------------------------------------------------------------------------
(* evaluate called on one key entry and one response record *)

MaxChosen == 2

MaxLabels == 2

\* The labels a record may choose and map: the first MaxLabels of A-D.
ChoiceLabels == {Labels[n] : n \in 1..Min(MaxLabels, 4)}

\* A url of canonical letter A, one of letter B, one that names no letter.
OptionUrls == {UrlA, UrlB, UrlUpperExt}

OptionMaps == UNION {[dom -> OptionUrls] : dom \in SUBSET ChoiceLabels}

KeyATrail == <<"A", ";">>

KeyLowerB == <<"b">>

Key1to15 == <<"1", " ", "t", "o", " ", "1", ".", "5">>

KeyMinus1To1 == <<"-", "1", "T", "O", "1">>

KeyMTA == <<"M", "T", "A">>

KeyRaws == {<<>>, KeyA, KeyLowerB, KeyAB, KeyATrail, Key1to15, KeyMinus1To1, KeyMTA}

TypeOther == <<"X", "Y", "Z">>

SingleKeys ==
    {[q_no |-> 1, q_type |-> t, section |-> SectionGA, key_raw |-> k] :
        t \in {TypeMCQ, TypeMSQ, TypeNAT, TypeOther}, k \in KeyRaws}

\* Records parse_response_sheet can build: chosen labels and an option map,
\* or a given answer.
ChoiceRecords ==
    {[question_id |-> 7, q_type |-> IF Len(c) > 1 THEN TypeMSQ ELSE TypeMCQ,
      status |-> StatusAnswered, chosen_labels |-> c, given_answer |-> None,
      option_map |-> om] : c \in SeqsUpTo(ChoiceLabels, MaxChosen), om \in OptionMaps}

\* Around the ends of "1 to 1.5" and of "-1TO1", in units of 1e-9.
GivenAnswers ==
    {<<>>, <<Nano - 2>>, <<Nano - 1>>, <<Nano>>, <<Nano + Nano \div 2 + 1>>,
     <<Nano + Nano \div 2 + 2>>, <<-Nano - 1>>}

NatRecords ==
    {[question_id |-> 7, q_type |-> TypeNAT, status |-> StatusNotAnswered,
      chosen_labels |-> <<>>, given_answer |-> g, option_map |-> <<>>] : g \in GivenAnswers}

InitScore ==
    /\ pc = "evaluate"
    /\ answer_key_pdf = <<>>
    /\ question_paper_pdf = <<>>
    /\ total_questions = 0
    /\ response_sheet = [ok |-> FALSE, text |-> <<>>]
    /\ flat_text = <<>>
    /\ detailed = FALSE
    /\ answer_key \in {<<k>> : k \in SingleKeys}
    /\ mark_scheme \in {<<>>, <<TwoMarks>>}
    /\ responses \in {<<r>> : r \in ChoiceRecords \cup NatRecords}
    /\ spans = <<>>
    /\ rows = <<>>
    /\ stdout = <<>>
    /\ calls = <<>>
    /\ error = ""

CallEvaluate ==
    /\ pc = "evaluate"
    /\ IF EvaluateRaises(answer_key, responses)
       THEN Raise(ErrTooFew) /\ UNCHANGED rows
       ELSE /\ rows' = evaluate(answer_key, mark_scheme, responses)
            /\ pc' = "returned" /\ UNCHANGED error
    /\ UNCHANGED <<answer_key_pdf, question_paper_pdf, total_questions, response_sheet,
                   flat_text, detailed, answer_key, mark_scheme, responses, spans,
                   stdout, calls>>

NextScore == CallEvaluate

SpecScore == InitScore /\ [][NextScore]_vars

\* The record row i was scored against: the one with the i-th smallest
\* question_id.
Paired(i) == sorted_responses(responses)[i]

\* The canonical letter the n-th chosen label of record r resolves to, if any.
ResolvedLabel(r, n) == label_to_master_option(r.option_map, r.chosen_labels[n])

\* C4: a key entry of type MCQ, MSQ or NAT paired with a record that has no
\* chosen label and no given answer gives a row with marks 0 and student
\* answer "--".
C4_UnansweredScoresZero ==
    pc = "returned" =>
        \A i \in 1..Len(rows) :
            (/\ answer_key[i].q_type \in {TypeMCQ, TypeMSQ, TypeNAT}
             /\ Paired(i).chosen_labels = <<>>
             /\ Paired(i).given_answer = None)
            => (rows[i].marks = 0 /\ rows[i].student_answer = Placeholder)

\* C7: an MCQ row is scored on the first chosen label alone: max_marks when
\* it resolves to key_raw, -max_marks/3 when it resolves to another letter,
\* and 0 with student answer "--" when no label was chosen or the first does
\* not resolve.
C7_MCQFirstLabelOnly ==
    pc = "returned" =>
        \A i \in 1..Len(rows) :
            answer_key[i].q_type = TypeMCQ =>
                LET first == IF Paired(i).chosen_labels = <<>> THEN None
                             ELSE ResolvedLabel(Paired(i), 1)
                IN  IF first = None
                    THEN rows[i].marks = 0 /\ rows[i].student_answer = Placeholder
                    ELSE /\ rows[i].student_answer = first[1]
                         /\ first[1] = answer_key[i].key_raw => rows[i].marks = rows[i].max_marks
                         /\ first[1] # answer_key[i].key_raw =>
                                3 * rows[i].marks = -rows[i].max_marks

\* An MCQ row worth 2.0 whose first label resolves to a wrong letter and whose
\* second label resolves to the key: it carries -2/3.
C7_Witness ==
    /\ pc = "returned"
    /\ Len(rows) = 1
    /\ answer_key[1].q_type = TypeMCQ
    /\ Len(responses[1].chosen_labels) = 2
    /\ ResolvedLabel(responses[1], 1) # None
    /\ ResolvedLabel(responses[1], 1) # Some(answer_key[1].key_raw)
    /\ ResolvedLabel(responses[1], 2) = Some(answer_key[1].key_raw)
    /\ rows[1].max_marks = TwoMarks
    /\ rows[1].marks = -2

\* The letters the chosen labels of r resolve to.
ResolvedSet(r) ==
    {ResolvedLabel(r, n)[1] :
        n \in {m \in 1..Len(r.chosen_labels) : ResolvedLabel(r, m) # None}}

\* key_raw split on ';', each item trimmed and uppercased, as a set.
SplitSet(key_raw) ==
    {upper(strip(split(key_raw, ";")[n])) : n \in 1..Len(split(key_raw, ";"))}

C9_NATWithinTolerance ==
    pc = "returned" =>
        \A i \in 1..Len(rows) :
            answer_key[i].q_type = TypeNAT =>
                LET given == Paired(i).given_answer
                    range == parse_nat_range(answer_key[i].key_raw)
                IN  /\ rows[i].marks >= 0
                    /\ rows[i].marks = rows[i].max_marks <=>
                          /\ given # None
                          /\ range # <<>>
                          /\ range[1] - 1 <= given[1]
                          /\ given[1] <= range[2] + 1
                    /\ rows[i].marks \in {0, rows[i].max_marks}

\* A NAT row whose answer lies 1e-9 above the range's upper end: full marks.
C9_Witness ==
    /\ pc = "returned"
    /\ Len(rows) = 1
    /\ answer_key[1].q_type = TypeNAT
    /\ answer_key[1].key_raw = Key1to15
    /\ responses[1].given_answer = <<Nano + Nano \div 2 + 1>>
    /\ rows[1].marks = rows[1].max_marks

-----------------------------------------------------------------------------
(* evaluate called on a key and a response list *)

MaxResponses == 3

\* A scheme as parse_mark_scheme returns it for two questions.
EvalScheme == <<OneMark, TwoMarks>>

EvalKeys ==
    {[q_no |-> 1, q_type |-> TypeMCQ, section |-> SectionGA, key_raw |-> KeyA],
     [q_no |-> 2, q_type |-> TypeMSQ, section |-> SectionGA, key_raw |-> KeyA],
     [q_no |-> 3, q_type |-> TypeMSQ, section |-> SectionGA, key_raw |-> <<>>],
     [q_no |-> 3, q_type |-> TypeNAT, section |-> SectionGA, key_raw |-> Key1to15],
     [q_no |-> 1, q_type |-> TypeNAT, section |-> SectionGA, key_raw |-> KeyMTA],
     [q_no |-> 2, q_type |-> TypeOther, section |-> SectionGA, key_raw |-> KeyA]}

\* Keys of at most two different entries, in the order parse_answer_key
\* leaves them.
EvalAnswerKeys ==
    {<<>>} \cup {<<k>> : k \in EvalKeys}
           \cup {ks \in EvalKeys \X EvalKeys : ks[1].q_no <= ks[2].q_no /\ ks[1] # ks[2]}

\* What the record of an odd question_id may hold: an answered MCQ, or an
\* unanswered MCQ without options.
OddContents ==
    {[q_type |-> TypeMCQ, status |-> StatusAnswered, chosen_labels |-> <<LabelA>>,
      given_answer |-> None, option_map |-> (LabelA :> UrlA @@ LabelB :> UrlB)],
     [q_type |-> TypeMCQ, status |-> StatusNotAnswered, chosen_labels |-> <<>>,
      given_answer |-> None, option_map |-> <<>>]}

\* What the record of an even question_id may hold: an MSQ one of whose two
\* labels has no option, or an answered NAT.
EvenContents ==
    {[q_type |-> TypeMSQ, status |-> StatusAnswered, chosen_labels |-> <<LabelA, LabelB>>,
      given_answer |-> None, option_map |-> (LabelA :> UrlA)],
     [q_type |-> TypeNAT, status |-> StatusAnswered, chosen_labels |-> <<>>,
      given_answer |-> Some(Nano), option_map |-> <<>>]}

EvalRecords ==
    {[question_id |-> id, q_type |-> c.q_type, status |-> c.status,
      chosen_labels |-> c.chosen_labels, given_answer |-> c.given_answer,
      option_map |-> c.option_map] :
        id \in 1..MaxResponses, c \in OddContents \cup EvenContents}

\* The sheet gives each question one id, and here each id one kind of content.
OneRecordPerId(rs) ==
    \A i \in 1..Len(rs) :
        /\ \A j \in 1..Len(rs) : i # j => rs[i].question_id # rs[j].question_id
        /\ (rs[i].question_id % 2 = 1) = (rs[i].q_type = TypeMCQ)

DistinctIds(rs) ==
    \A i, j \in 1..Len(rs) : i # j => rs[i].question_id # rs[j].question_id

\* Response lists in any document order; a sheet gives each question one id.
EvalResponses == {rs \in SeqsUpTo(EvalRecords, MaxResponses) : OneRecordPerId(rs)}

InitEval ==
    /\ pc = "evaluate"
    /\ answer_key_pdf = <<>>
    /\ question_paper_pdf = <<>>
    /\ total_questions = 0
    /\ response_sheet = [ok |-> FALSE, text |-> <<>>]
    /\ flat_text = <<>>
    /\ detailed = FALSE
    /\ answer_key \in EvalAnswerKeys
    /\ mark_scheme = EvalScheme
    /\ responses \in EvalResponses
    /\ spans = <<>>
    /\ rows = <<>>
    /\ stdout = <<>>
    /\ calls = <<>>
    /\ error = ""

NextEval == CallEvaluate

SpecEval == InitEval /\ [][NextEval]_vars

\* The record leaves the row nothing to score: an MCQ row without a chosen
\* label or whose first label does not resolve, an MSQ row none of whose
\* labels resolves, a NAT row without an answer or without a range in
\* key_raw, a row of another type.
NothingToScore(key_entry, r) ==
    IF key_entry.q_type = TypeMCQ
    THEN r.chosen_labels = <<>> \/ ResolvedLabel(r, 1) = None
    ELSE IF key_entry.q_type = TypeMSQ THEN ResolvedSet(r) = {}
    ELSE IF key_entry.q_type = TypeNAT
         THEN r.given_answer = None \/ parse_nat_range(key_entry.key_raw) = <<>>
    ELSE TRUE

\* evaluate returned one row per key entry, in key order.
RowPerKeyEntry ==
    /\ pc = "returned"
    /\ error = ""
    /\ Len(rows) = Len(answer_key)
    /\ \A i \in 1..Len(rows) :
          /\ rows[i].q_no = answer_key[i].q_no
          /\ rows[i].q_type = answer_key[i].q_type
          /\ rows[i].correct_answer = answer_key[i].key_raw

\* C6: with at least as many records as key entries evaluate returns one row
\* per key entry, in key order, and a row whose record leaves nothing to
\* score carries 0 marks.
C6_DefectiveRowsScoreZero ==
    (pc # "evaluate" /\ Len(responses) >= Len(answer_key)) =>
        /\ RowPerKeyEntry
        /\ \A i \in 1..Len(rows) :
              NothingToScore(answer_key[i], Paired(i)) => rows[i].marks = 0

\* The part of C6 the code keeps: no error, one row per key entry, in key
\* order, marks among 0, max_marks and -max_marks/3.
EvaluateRowPerKeyEntry ==
    (pc # "evaluate" /\ Len(responses) >= Len(answer_key)) =>
        /\ RowPerKeyEntry
        /\ \A i \in 1..Len(rows) :
              \/ rows[i].marks \in {0, rows[i].max_marks}
              \/ 3 * rows[i].marks = -rows[i].max_marks

\* Every order the records of rs can come in.
Orders(rs) ==
    {[i \in 1..Len(rs) |-> rs[f[i]]] : f \in Permutations(1..Len(rs))}

\* How many records have a smaller question_id than id.
Below(id) == Cardinality({j \in 1..Len(responses) : responses[j].question_id < id})

\* C10: with distinct question_ids, row i is scored against the record with
\* the i-th smallest question_id, whatever its q_no and whatever the order of
\* the records; no record is used twice and the records beyond the key's
\* length are not used.
C10_PairsByPosition ==
    (pc = "returned" /\ DistinctIds(responses)) =>
        /\ \A i \in 1..Len(rows) :
              /\ Below(rows[i].question_id) = i - 1
              /\ \E j \in 1..Len(responses) :
                    /\ responses[j].question_id = rows[i].question_id
                    /\ rows[i] = EvaluationRow(answer_key[i], responses[j], mark_scheme)
        /\ \A rs \in Orders(responses) : evaluate(answer_key, mark_scheme, rs) = rows
        /\ \A i, j \in 1..Len(rows) : i # j => rows[i].question_id # rows[j].question_id
        /\ \A j \in 1..Len(responses) :
              Below(responses[j].question_id) >= Len(answer_key) =>
                  \A i \in 1..Len(rows) : rows[i].question_id # responses[j].question_id

\* Two key entries and three records out of order: the row of q_no n is
\* scored against a record of another id although a record of id n exists,
\* and the record of the largest id is left out.
C10_Witness ==
    /\ pc = "returned"
    /\ Len(rows) = 2
    /\ Len(responses) = 3
    /\ responses[1].question_id > responses[2].question_id
    /\ \E i \in 1..2 :
          /\ rows[i].q_no # rows[i].question_id
          /\ \E j \in 1..3 : responses[j].question_id = rows[i].q_no
    /\ \E j \in 1..3 : \A i \in 1..2 : rows[i].question_id # responses[j].question_id

-----------------------------------------------------------------------------
(* run *)

\* Key documents: no page, a page without a table, a table of its header
\* only, a table under another header, one to three rows, a number int()
\* rejects.
RunKeyRows == KeyRowMenu \ {<<<<>>, <<>>, <<>>, <<>>>>}

RunKeyDocs ==
    {<<>>, <<<<>>>>, <<<<<<KeyHeader>>>>>>,
     <<<<<<OtherHeader, <<<<"1">>, TypeMCQ, SectionGA, KeyA>>>>>>>>,
     <<<<<<KeyHeader, <<<<SuperscriptTwo>>, TypeMCQ, SectionGA, KeyA>>>>>>>>,
     <<<<<<KeyHeader, <<<<"1">>, TypeMCQ, SectionGA, KeyA>>,
                      <<<<"2">>, TypeMCQ, SectionGA, KeyA>>,
                      <<<<"3">>, TypeNAT, SectionGA, Key1to2>>>>>>>>}
        \cup {<<<<<<KeyHeader, r>>>>>> : r \in RunKeyRows}
        \cup {<<<<<<KeyHeader, r, q>>>>>> : r \in RunKeyRows, q \in RunKeyRows}

RunPapers == {<<>>, <<<<<<IntStr(1), IntStr(2), <<"t", "w", "o">>>>>>>>}

RunBlocks ==
    {<<Opt(LabelA, UrlC), Opt(<<"b">>, UrlA), Opt(LabelC, UrlB), Opt(LabelD, UrlD),
       Anchor(TypeMCQ, <<"7">>, StatusAnswered), Chosen(<<"A">>)>>,
     <<Opt(LabelA, UrlC), Opt(<<"b">>, UrlA), Opt(LabelC, UrlB), Opt(LabelD, UrlD),
       Anchor(<<"m", "s", "q">>, <<"0", "3">>, StatusAnswered), Chosen(<<"c", " ", ",", "A">>)>>,
     <<Given(<<"1", ".", "5">>), Anchor(TypeNAT, <<"1", "2">>, StatusAnswered)>>,
     <<Text, Anchor(TypeMCQ, <<"5">>, StatusNotAnswered)>>}

\* A failed request, and the texts of answered requests: without an anchor,
\* with one, with two.
ResponseSheets ==
    {[ok |-> FALSE, text |-> <<>>]}
        \cup {[ok |-> TRUE, text |-> t] :
                t \in {<<>>, <<Text>>, <<Text, QuestionTypeLiteral, Chosen(<<"A">>)>>}
                      \cup RunBlocks \cup {b \o c : b \in RunBlocks, c \in RunBlocks}}

Init ==
    /\ pc = "run"
    /\ answer_key_pdf \in RunKeyDocs
    /\ question_paper_pdf \in RunPapers
    /\ total_questions = 0
    /\ response_sheet \in ResponseSheets
    /\ flat_text = <<>>
    /\ detailed \in BOOLEAN
    /\ answer_key = <<>>
    /\ mark_scheme = <<>>
    /\ responses = <<>>
    /\ spans = <<>>
    /\ rows = <<>>
    /\ stdout = <<>>
    /\ calls = <<>>
    /\ error = ""

Next ==
    \/ RunParseAnswerKey
    \/ RunParseMarkScheme
    \/ RunFetchResponseHtml
    \/ RunParseResponseSheet
    \/ RunEvaluate
    \/ RunPrint

Spec == Init /\ [][Next]_vars

Called(f) == \E i \in 1..Len(calls) : calls[i] = f

\* The run ended in an error with nothing emitted.
EndedInError == pc = "raised" /\ error # "" /\ rows = <<>> /\ stdout = <<>>

\* C5: rows and output exist only if the key has an entry, the response
\* document gave a record and there are at least as many records as key
\* entries; an empty key, a document without anchors and a document with
\* fewer records than key entries each end the run in an error with no row
\* and no output, the empty key before parse_mark_scheme and
\* fetch_response_html are called.
C5_OutputOnlyAfterChecks ==
    /\ (rows # <<>> \/ stdout # <<>>) =>
          /\ answer_key # <<>>
          /\ responses # <<>>
          /\ Len(responses) >= Len(answer_key)
    /\ (Called("parse_answer_key") /\ answer_key = <<>>) =>
          /\ EndedInError
          /\ calls = <<"parse_answer_key">>
          /\ mark_scheme = <<>>
    /\ (Called("parse_response_sheet") /\ Starts(flat_text) = <<>>) =>
          /\ EndedInError
          /\ error = ErrResponses
          /\ ~Called("evaluate")
    /\ (Called("evaluate") /\ Len(responses) < Len(answer_key)) =>
          /\ EndedInError
          /\ error = ErrTooFew
    /\ pc = "returned" => rows # <<>> /\ stdout # <<>>

\* A run that got past the key and the response document and then found
\* fewer records than key entries.
C5_Witness ==
    /\ pc = "raised"
    /\ error = ErrTooFew
    /\ answer_key # <<>>
    /\ responses # <<>>
    /\ Len(responses) < Len(answer_key)
    /\ rows = <<>>
    /\ stdout = <<>>

=============================================================================
